---- MODULE Spec2Model ----
(***************************************************************************)
(* thehub.io jobs scraper: the listing client (src/src/api.ts), the        *)
(* multi-region aggregator, the actor's main run (src/src/main.ts and its  *)
(* streaming variant in src/src/nuxtExtractor.ts) and the job-detail       *)
(* handler (routes.ts, src/unnamed/part_005).                              *)
(***************************************************************************)
EXTENDS Integers, Sequences, FiniteSets, TLC

\* ---------------------------------------------------------------- bounds
MaxPages == 3        \* largest jobs.pages the upstream reports
MaxDocs == 2         \* most listings in one page's jobs.docs
MaxId == 2           \* job ids are 1..MaxId
MaxLimit == 3        \* largest limit passed to fetchAllJobsForRegion
MaxOver == 2         \* how far a requested maximum goes below 0 and beyond the free tier's
MaxIds == 3          \* a list of position type ids has up to MaxIds entries

MaxRetries == 1      \* retries the crawler gives a request before it fails for good

\* ------------------------------------------------------- program constants
COUNTRY_CODES == <<"FI", "SE", "DK", "NO", "IS", "EU", "REMOTE">>
FREE_TIER_ITEM_LIMIT == 50
Unknown == 0                 \* the jobId 'unknown' (job ids are 1, 2, ...)

Absent == "<absent>"         \* an undefined field / parameter that is not set
NoResponse == [pending |-> TRUE]    \* a slot of a Promise.all result not yet settled
NoDocs == [absent |-> TRUE]         \* featuredJobs without docs
NoError == [message |-> "", status |-> 0]

VARIABLES
    upstream,    \* the listing API's data: region -> [pages, featured, docs]
    calls,       \* the fetchAllJobsForRegion invocations (locals of each)
    inflight,    \* HTTP requests sent and not yet answered: [call, page]
    pageLog,     \* per (call, page): the fetchJobsPage calls made and their outcome
    arrivals,    \* the (call, page) of the responses, in the order they came in
    fetchAll,    \* the fetchAllJobs invocation: its arguments, locals and outcome
    stream,      \* the streaming multi-job mode: seenJobIds, firstPages, the regions
    config,      \* the actor input and the environment of the run
    run,         \* main: where it is, finalMaxRequests, startUrls, the fatal error
    requests,    \* the crawler's request queue, with what happened to each request
    dataset,     \* the records given to Actor.pushData, in order
    kvStore,     \* the error files written with Actor.setValue
    unitTest     \* a unit test of a helper: the data given and the result got

listing == <<upstream, calls, inflight, pageLog, arrivals, fetchAll>>
crawl == <<requests, dataset, kvStore>>
vars == <<upstream, calls, inflight, pageLog, arrivals, fetchAll, stream, config, run,
          requests, dataset, kvStore, unitTest>>

\* ------------------------------------------------------------ upstream data
JobIds == 1..MaxId

SeqsUpTo(S, n) == UNION {[1..k -> S] : k \in 0..n}

DocChoices == SeqsUpTo(JobIds, MaxDocs)

FeaturedChoices == SeqsUpTo(JobIds, 1)

RegionData ==
    UNION {[pages : {n}, featured : FeaturedChoices, docs : [1..n -> DocChoices]] :
           n \in 1..MaxPages}

\* A listing as the client sees it: the id plus the place it came from.
Job(id, region, page, pos, featured) ==
    [id |-> id, region |-> region, page |-> page, pos |-> pos, featured |-> featured]

JobsOf(ids, region, page, featured) ==
    [k \in 1..Len(ids) |-> Job(ids[k], region, page, k, featured)]

\* The JSON body of GET /jobsandfeatured for (region, page).
PageBody(region, page) ==
    LET d == upstream[region] IN
    [jobs |-> [pages |-> d.pages, docs |-> JobsOf(d.docs[page], region, page, FALSE)],
     featuredJobs |-> IF d.featured = <<>>
                      THEN NoDocs
                      ELSE [docs |-> JobsOf(d.featured, region, page, TRUE)]]

StatusCodes == {200, 503}

ResponseOk(status) == status >= 200 /\ status <= 299

\* ------------------------------------------------------------ fetchJobsPage
\* (mutant) the region always goes into countryCode
fetchJobsPageUrlCountryOnly(region, page) ==
    [countryCode |-> region, isRemote |-> Absent, page |-> page, sorting |-> "mostPopular"]

\* api.ts 17-26: the query parameters of the request.
fetchJobsPageUrl(region, page) ==
    [countryCode |-> IF region = "REMOTE" THEN Absent ELSE region,
     isRemote |-> IF region = "REMOTE" THEN "true" ELSE Absent,
     page |-> page,
     sorting |-> "mostPopular"]

\* (mutant) response.ok is not looked at
fetchJobsPageResultUnchecked(status, body) == [outcome |-> "page", page |-> body]

\* api.ts 30-36: what the call gives its caller once the response is in.
fetchJobsPageResult(status, body) ==
    IF ~ResponseOk(status)
    THEN [outcome |-> "error", error |-> [message |-> "API error", status |-> status]]
    ELSE [outcome |-> "page", page |-> body]

\* api.ts 30-34: HTTP requests issued again after a response with this status.
fetchRetries(status) == 0

NewLogEntry(region, page) ==
    [region |-> region, url |-> fetchJobsPageUrl(region, page), called |-> 0, http |-> 0,
     status |-> 0, outcome |-> "pending", errorStatus |-> 0]

\* fetchJobsPage(region, p) is called for every p of pages: one fetch each.
CallPages(log, i, region, pages) ==
    [k \in DOMAIN log \cup {<<i, p>> : p \in pages} |->
        IF k[1] = i /\ k[2] \in pages
        THEN LET e == IF k \in DOMAIN log THEN log[k] ELSE NewLogEntry(region, k[2]) IN
             [e EXCEPT !.called = @ + 1, !.http = @ + 1]
        ELSE log[k]]

Settle(log, i, p, status, res) ==
    [log EXCEPT ![<<i, p>>] =
        [@ EXCEPT !.status = status, !.outcome = res.outcome,
                  !.errorStatus = IF res.outcome = "error" THEN res.error.status ELSE 0,
                  !.http = @ + fetchRetries(status)]]

\* ---------------------------------------------------- fetchAllJobsForRegion
RegionCall(region, limit) ==
    [region |-> region, limit |-> limit, pc |-> "page1", allJobs |-> <<>>,
     totalPages |-> 0, remainingResponses |-> <<>>, error |-> NoError]

\* (mutant) page 2 is requested together with page 1
FirstPagesEager == {1, 2}

\* api.ts 51, nuxtExtractor.ts 327: the pages requested before anything is known.
FirstPages == {1}

\* api.ts 54-58
FirstPageJobs(firstResponse) ==
    firstResponse.jobs.docs \o
    (IF firstResponse.featuredJobs # NoDocs THEN firstResponse.featuredJobs.docs ELSE <<>>)

\* (mutant) the limit is not looked at after page 1
DoneAfterFirstNoLimit(totalPages, limit, count) == totalPages = 1

\* api.ts 67
DoneAfterFirst(totalPages, limit, count) ==
    totalPages = 1 \/ (limit > 0 /\ count >= limit)

\* (mutant) one page short
RemainingPagesShort(totalPages) == [k \in 1..(totalPages - 2) |-> (k - 1) + 2]

\* api.ts 76: Array.from({ length: totalPages - 1 }, (_, i) => i + 2), i from 0
RemainingPages(totalPages) == [k \in 1..(totalPages - 1) |-> (k - 1) + 2]

\* (mutant) the first result that comes in stands for all of them
StoreResponseFill(responses, index, response) == [k \in DOMAIN responses |-> response]

\* api.ts 79: Promise.all keeps each result at the index of its promise.
StoreResponse(responses, index, response) == [responses EXCEPT ![index] = response]

\* (mutant) the result is cut to the limit, inside a page if need be
AccumulateRemainingSliced(allJobs, responses, i, limit) ==
    LET RECURSIVE AllFrom(_, _)
        AllFrom(jobs, k) ==
            IF k > Len(responses) THEN jobs
            ELSE AllFrom(jobs \o responses[k].jobs.docs, k + 1)
        all == AllFrom(allJobs, i)
    IN IF limit > 0 /\ Len(all) >= limit THEN SubSeq(all, 1, limit) ELSE all

\* api.ts 81-94
RECURSIVE AccumulateRemaining(_, _, _, _)
AccumulateRemaining(allJobs, responses, i, limit) ==
    IF i > Len(responses)
    THEN allJobs
    ELSE LET more == allJobs \o responses[i].jobs.docs IN
         IF limit > 0 /\ Len(more) >= limit
         THEN more
         ELSE AccumulateRemaining(more, responses, i + 1, limit)

Range(s) == {s[k] : k \in DOMAIN s}

IndexOf(s, x) == CHOOSE k \in DOMAIN s : s[k] = x

\* ------------------------------------------------------------ fetchAllJobs
NotCalled == [pc |-> "idle", regions |-> <<>>, limit |-> 0, seenJobIds |-> {},
              allJobs |-> <<>>, error |-> NoError]

\* api.ts 107-111: the locals, and one fetchAllJobsForRegion(region, 0) per region.
fetchAllJobsCall(regions, limit) ==
    [pc |-> "fetching", regions |-> regions, limit |-> limit, seenJobIds |-> {},
     allJobs |-> <<>>, error |-> NoError]

\* api.ts 111: regions.map starts every region call, each up to its first await.
StartCalls(regions) == [i \in DOMAIN regions |-> RegionCall(regions[i], 0)]

RECURSIVE CallFirstPages(_, _, _)
CallFirstPages(log, regions, i) ==
    IF i > Len(regions) THEN log
    ELSE CallFirstPages(CallPages(log, i, regions[i], FirstPages), regions, i + 1)

\* (mutant) a rejected region call is not noticed
RegionRejectedIgnored(f, error) == f

\* api.ts 111: a rejected fetchAllJobsForRegion rejects the Promise.all, and the
\* await throws out of fetchAllJobs.
RegionRejected(f, error) == [f EXCEPT !.pc = "rejected", !.error = error]

\* What a call that just settled does to the fetchAllJobs awaiting it.
AfterCall(f, call) ==
    IF f.pc = "fetching" /\ call.pc = "failed" THEN RegionRejected(f, call.error) ELSE f

\* (mutant) seenJobIds is not consulted
RECURSIVE MergeRegionNoDedup(_, _, _, _)
MergeRegionNoDedup(st, jobs, k, limit) ==
    IF k > Len(jobs)
    THEN st
    ELSE LET st2 == [seenJobIds |-> st.seenJobIds \cup {jobs[k].id},
                     allJobs |-> Append(st.allJobs, jobs[k])]
         IN IF limit > 0 /\ Len(st2.allJobs) >= limit
            THEN st2
            ELSE MergeRegionNoDedup(st2, jobs, k + 1, limit)

\* (mutant) the loop stops one entry late: > for >=
RECURSIVE MergeRegionLate(_, _, _, _)
MergeRegionLate(st, jobs, k, limit) ==
    IF k > Len(jobs)
    THEN st
    ELSE IF jobs[k].id \notin st.seenJobIds
    THEN LET st2 == [seenJobIds |-> st.seenJobIds \cup {jobs[k].id},
                     allJobs |-> Append(st.allJobs, jobs[k])]
         IN IF limit > 0 /\ Len(st2.allJobs) > limit
            THEN st2
            ELSE MergeRegionLate(st2, jobs, k + 1, limit)
    ELSE MergeRegionLate(st, jobs, k + 1, limit)

\* api.ts 115-125: the inner loop over one region's jobs, from index k.
RECURSIVE MergeRegion(_, _, _, _)
MergeRegion(st, jobs, k, limit) ==
    IF k > Len(jobs)
    THEN st
    ELSE IF jobs[k].id \notin st.seenJobIds
    THEN LET st2 == [seenJobIds |-> st.seenJobIds \cup {jobs[k].id},
                     allJobs |-> Append(st.allJobs, jobs[k])]
         IN IF limit > 0 /\ Len(st2.allJobs) >= limit
            THEN st2
            ELSE MergeRegion(st2, jobs, k + 1, limit)
    ELSE MergeRegion(st, jobs, k + 1, limit)

\* api.ts 114-131: the outer loop over regionResults, from index r.
RECURSIVE MergeAll(_, _, _, _)
MergeAll(st, regionResults, r, limit) ==
    IF r > Len(regionResults)
    THEN st
    ELSE LET st2 == MergeRegion(st, regionResults[r], 1, limit) IN
         IF limit > 0 /\ Len(st2.allJobs) >= limit
         THEN st2
         ELSE MergeAll(st2, regionResults, r + 1, limit)

\* (mutant) the results in the order in which the region calls finished
RegionResultsAsFinished ==
    LET last(i) == CHOOSE n \in DOMAIN arrivals :
                       arrivals[n][1] = i /\ \A m \in DOMAIN arrivals : arrivals[m][1] = i => m <= n
        rank(i) == Cardinality({j \in DOMAIN calls : last(j) <= last(i)})
    IN [n \in DOMAIN calls |-> calls[CHOOSE i \in DOMAIN calls : rank(i) = n].allJobs]

\* api.ts 111: the results of the region calls, in the order of regions.
RegionResults == [i \in DOMAIN calls |-> calls[i].allJobs]

\* api.ts 113-135: every region call has resolved; merge and return.
fetchAllJobsMerge ==
    /\ fetchAll.pc = "fetching"
    /\ \A i \in DOMAIN calls : calls[i].pc = "done"
    /\ LET st == MergeAll([seenJobIds |-> {}, allJobs |-> <<>>], RegionResults, 1,
                          fetchAll.limit)
       IN fetchAll' = [fetchAll EXCEPT !.pc = "returned", !.seenJobIds = st.seenJobIds,
                                       !.allJobs = st.allJobs]
    /\ UNCHANGED <<upstream, calls, inflight, pageLog, arrivals, stream, config, unitTest, run, crawl>>

\* The response for page 1 of call i arrives (api.ts 51-79).
FirstPageResponse(i, status) ==
    /\ [call |-> i, page |-> 1] \in inflight
    /\ calls[i].pc = "page1"
    /\ LET c == calls[i]
           res == fetchJobsPageResult(status, PageBody(c.region, 1))
       IN
       IF res.outcome = "error"
       THEN /\ calls' = [calls EXCEPT ![i].pc = "failed", ![i].error = res.error]
            /\ inflight' = inflight \ {[call |-> i, page |-> 1]}
            /\ pageLog' = Settle(pageLog, i, 1, status, res)
       ELSE LET totalPages == res.page.jobs.pages
                allJobs == FirstPageJobs(res.page)
                remainingPages == RemainingPages(totalPages)
            IN
            IF DoneAfterFirst(totalPages, c.limit, Len(allJobs))
            THEN /\ calls' = [calls EXCEPT ![i].pc = "done", ![i].allJobs = allJobs,
                                           ![i].totalPages = totalPages]
                 /\ inflight' = inflight \ {[call |-> i, page |-> 1]}
                 /\ pageLog' = Settle(pageLog, i, 1, status, res)
            ELSE /\ calls' = [calls EXCEPT
                                ![i].pc = IF Len(remainingPages) = 0 THEN "done" ELSE "rest",
                                ![i].allJobs = allJobs,
                                ![i].totalPages = totalPages,
                                ![i].remainingResponses =
                                    [k \in 1..Len(remainingPages) |-> NoResponse]]
                 /\ inflight' = (inflight \ {[call |-> i, page |-> 1]})
                                \cup {[call |-> i, page |-> p] : p \in Range(remainingPages)}
                 /\ pageLog' = CallPages(Settle(pageLog, i, 1, status, res),
                                         i, c.region, Range(remainingPages))
    /\ arrivals' = Append(arrivals, <<i, 1>>)
    /\ fetchAll' = AfterCall(fetchAll, calls'[i])
    /\ UNCHANGED <<upstream, stream, config, unitTest, run, crawl>>

\* The response for a page >= 2 of call i arrives (api.ts 79-98).
RemainingPageResponse(i, p, status) ==
    /\ p >= 2
    /\ [call |-> i, page |-> p] \in inflight
    /\ LET c == calls[i]
           res == fetchJobsPageResult(status, PageBody(c.region, p))
       IN
       /\ inflight' = inflight \ {[call |-> i, page |-> p]}
       /\ pageLog' = Settle(pageLog, i, p, status, res)
       /\ IF c.pc # "rest"
          THEN calls' = calls
          ELSE IF res.outcome = "error"
          THEN calls' = [calls EXCEPT ![i].pc = "failed", ![i].error = res.error]
          ELSE LET responses == StoreResponse(c.remainingResponses,
                                              IndexOf(RemainingPages(c.totalPages), p),
                                              res.page)
               IN
               IF \E k \in DOMAIN responses : responses[k] = NoResponse
               THEN calls' = [calls EXCEPT ![i].remainingResponses = responses]
               ELSE calls' = [calls EXCEPT
                                ![i].remainingResponses = responses,
                                ![i].pc = "done",
                                ![i].allJobs = AccumulateRemaining(c.allJobs, responses, 1, c.limit)]
    /\ arrivals' = Append(arrivals, <<i, p>>)
    /\ fetchAll' = IF calls[i].pc = "rest" THEN AfterCall(fetchAll, calls'[i]) ELSE fetchAll
    /\ UNCHANGED <<upstream, stream, config, unitTest, run, crawl>>

\* --------------------------------------------------------------- the run
NoConfig == [given |-> FALSE]

NoTest == [pc |-> "none"]

NotRunning ==
    [pc |-> "none", crawler |-> "idle", finalMaxRequests |-> 0, startUrls |-> <<>>,
     error |-> NoError]

NotStreaming == [pc |-> "none", seenJobIds |-> {}, firstPages |-> <<>>, rest |-> <<>>]

\* fetchAllJobsForRegion or fetchAllJobs called directly: no actor run around it.
NoRun ==
    /\ config = NoConfig
    /\ stream = NotStreaming
    /\ run = NotRunning
    /\ requests = <<>>
    /\ dataset = <<>>
    /\ kvStore = <<>>
    /\ unitTest = NoTest

\* A URL: the text up to and including "/jobs/" (if any) and the id after it.
NoUrl == [text |-> "", id |-> Unknown]
JobUrl(id) == [text |-> "https://thehub.io/jobs/", id |-> id]
OtherUrl == [text |-> "https://thehub.io/startups", id |-> Unknown]

\* the opposite order, inputJobUrl || envJobUrl: the input wins
FinalJobUrlInputFirst(c) == IF c.jobUrl # NoUrl THEN c.jobUrl ELSE c.JOB_URL

\* main.ts 28
FinalJobUrl(c) == IF c.JOB_URL # NoUrl THEN c.JOB_URL ELSE c.jobUrl

\* main.ts 33: parseInt(process.env.MAX_PAGES_TEST, 10), for the text of an
\* integer with or without a sign
ParseInt(text) ==
    CHOOSE n \in (0 - MaxOver)..(FREE_TIER_ITEM_LIMIT + MaxOver) : ToString(n) = text

\* main.ts 31-37
FinalMaxRequests(c) ==
    LET isFreeTier == ~c.userIsPaying
        requested == IF c.MAX_PAGES_TEST # "" THEN ParseInt(c.MAX_PAGES_TEST)
                     ELSE c.maxRequestsPerCrawl
    IN IF isFreeTier /\ (requested = 0 \/ requested > FREE_TIER_ITEM_LIMIT)
       THEN FREE_TIER_ITEM_LIMIT
       ELSE requested

\* main.ts 22 and 61
Countries(c) == IF c.countries.given THEN c.countries.list ELSE COUNTRY_CODES

\* (without the filter of main.ts 61)
ValidCountriesUnfiltered(c) == Countries(c)

ValidCountries(c) ==
    SelectSeq(Countries(c), LAMBDA x : x \in Range(COUNTRY_CODES))

\* main.ts 43-44: finalJobUrl.match(/\/jobs\/([a-zA-Z0-9-]+)/)
JobIdOf(url) == IF url.text = "https://thehub.io/jobs/" THEN url.id ELSE Unknown

\* A request as the crawler keeps it.
Request(url, jobId) ==
    [url |-> url, jobId |-> jobId, retryCount |-> 0, state |-> "queued", attempts |-> <<>>]

\* main.ts 50-56
SingleStartUrls(url) == <<Request(url, JobIdOf(url))>>

\* main.ts 73-83
StartUrls(jobs) == [k \in DOMAIN jobs |-> Request(JobUrl(jobs[k].id), jobs[k].id)]

\* main.ts 19-68, single job mode: straight to crawler.run (main.ts 130).
MainSingleJob ==
    /\ run.pc = "start"
    /\ FinalJobUrl(config) # NoUrl
    /\ LET startUrls == SingleStartUrls(FinalJobUrl(config)) IN
       /\ run' = [run EXCEPT !.pc = "crawling", !.crawler = "running",
                             !.finalMaxRequests = FinalMaxRequests(config),
                             !.startUrls = startUrls]
       /\ requests' = startUrls
    /\ UNCHANGED <<listing, stream, config, unitTest, dataset, kvStore>>

\* main.ts 19-68, multi job mode: no valid country code is fatal, otherwise
\* fetchAllJobs(validCountries, finalMaxRequests) is called and awaited.
MainListJobs ==
    /\ run.pc = "start"
    /\ FinalJobUrl(config) = NoUrl
    /\ LET validCountries == ValidCountries(config) IN
       IF Len(validCountries) = 0
       THEN /\ run' = [run EXCEPT !.pc = "failed",
                                  !.finalMaxRequests = FinalMaxRequests(config),
                                  !.error = [message |-> "No valid country codes provided",
                                             status |-> 0]]
            /\ UNCHANGED <<calls, pageLog, inflight, fetchAll>>
       ELSE /\ run' = [run EXCEPT !.pc = "listing",
                                  !.finalMaxRequests = FinalMaxRequests(config)]
            /\ calls' = StartCalls(validCountries)
            /\ pageLog' = CallFirstPages(pageLog, validCountries, 1)
            /\ inflight' = {[call |-> i, page |-> p] :
                               i \in DOMAIN validCountries, p \in FirstPages}
            /\ fetchAll' = fetchAllJobsCall(validCountries, FinalMaxRequests(config))
    /\ UNCHANGED <<upstream, arrivals, stream, config, unitTest, crawl>>

\* main.ts 68: the awaited fetchAllJobs rejected; the error leaves main.
MainFetchFailed ==
    /\ run.pc = "listing"
    /\ fetchAll.pc = "rejected"
    /\ run' = [run EXCEPT !.pc = "failed", !.error = fetchAll.error]
    /\ UNCHANGED <<listing, stream, config, unitTest, crawl>>

\* main.ts 68-130: fetchAllJobs returned; build startUrls and run the crawler.
MainRunCrawler ==
    /\ run.pc = "listing"
    /\ fetchAll.pc = "returned"
    /\ LET startUrls == StartUrls(fetchAll.allJobs) IN
       /\ run' = [run EXCEPT !.pc = "crawling", !.crawler = "running",
                             !.startUrls = startUrls]
       /\ requests' = startUrls
    /\ UNCHANGED <<listing, stream, config, unitTest, dataset, kvStore>>

\* ------------------------------------------------------ the job detail page
Null == [null |-> TRUE]

\* What GET https://thehub.io/jobs/<id> can come back with.
NoScriptPage == [kind |-> "no-script", job |-> Null]
EvalThrowsPage == [kind |-> "eval-throws", job |-> Null]
NoJobPathPage == [kind |-> "no-job-path", job |-> Null]
JobPage(job) == [kind |-> "job", job |-> job]

\* A JavaScript value: its typeof and its text. undefined is a missing property.
Str(s) == [t |-> "string", v |-> s]
Bool(b) == [t |-> "boolean", v |-> IF b THEN "true" ELSE "false"]
Num(n) == [t |-> "number", v |-> ToString(n)]
Undefined == [t |-> "undefined", v |-> ""]

\* A string that is written as a date, a time and a zone designator.
Stamp(date, time, zone) == [t |-> "string", date |-> date, time |-> time, zone |-> zone]

\* new Date().toISOString()
Now == Stamp("2026-01-01", "00:00:00.000", "Z")

IsString(x) == x.t = "string"

\* The text of a string value.
TextOf(x) == IF "v" \in DOMAIN x THEN x.v ELSE x.date \o x.time \o x.zone

\* x || y in JavaScript, for the values above.
Falsy(x) ==
    \/ x.t = "undefined"
    \/ x.t = "string" /\ TextOf(x) = ""
    \/ x.t = "boolean" /\ x.v = "false"
    \/ x.t = "number" /\ x.v = "0"

OrElse(x, y) == IF Falsy(x) THEN y ELSE x

\* types.ts 104-120: state.jobs.job.company
Company(name) == [t |-> "object", id |-> Str("c1"), name |-> name]

\* types.ts 64-99: a job as the page's state carries it, all fields in order.
GoodJob(id) ==
    [id |-> Str(ToString(id)),
     title |-> Str("Engineer"),
     company |-> Company(Str("Acme")),
     location |-> [t |-> "object", country |-> Str("Finland")],
     isRemote |-> Bool(TRUE),
     salary |-> Str("competitive"),
     views |-> [t |-> "object", week |-> Num(1), total |-> Num(2)],
     link |-> Str("https://apply.example.com/1"),
     createdAt |-> Stamp("2025-01-15", "10:00:00.000", "Z"),
     publishedAt |-> Stamp("2025-01-16", "10:00:00.000", "Z")]

JobFulls(id) == {GoodJob(id), [GoodJob(id) EXCEPT !.company = Undefined]}

DetailPages(id) ==
    {NoScriptPage, EvalThrowsPage, NoJobPathPage} \cup {JobPage(j) : j \in JobFulls(id)}

\* nuxtExtractor.ts 19-50
extractJobFromHtml(html) ==
    IF html.kind = "no-script" THEN Null
    ELSE IF html.kind = "eval-throws" THEN Null
    ELSE IF html.kind = "no-job-path" THEN Null
    ELSE html.job

\* routes.ts (part_005 221-226, 272-277): the error placeholder
ErrorRecord(url, jobId, error) ==
    [url |-> url, jobId |-> jobId, error |-> error, timestamp |-> Now]

\* (mutant) the link is copied as it is
OutputLinkCopied(job) == job.link

\* routes.ts (part_005 260): job.link || undefined
OutputLink(job) == OrElse(job.link, Undefined)

\* (mutant) publishedAt is copied as it is
OutputPublishedAtCopied(job) == job.publishedAt

\* routes.ts (part_005 262): job.publishedAt || job.createdAt
OutputPublishedAt(job) == OrElse(job.publishedAt, job.createdAt)

\* routes.ts (part_005 236-265)
JobOutput(job, url) ==
    [id |-> job.id,
     url |-> url,
     title |-> job.title,
     company |-> [t |-> "object", id |-> job.company.id, name |-> job.company.name],
     location |-> job.location,
     isRemote |-> job.isRemote,
     salary |-> job.salary,
     views |-> job.views,
     link |-> OutputLink(job),
     createdAt |-> job.createdAt,
     publishedAt |-> OutputPublishedAt(job),
     scrapedAt |-> Now]

\* ------------------------------------------------------- JobOutputSchema
\* The scheme new URL(text) finds, "" when the text does not parse as a URL.
SchemeOf(url) ==
    CASE url.text \in {"https://thehub.io/jobs/", "https://thehub.io/startups"} -> "https:"
      [] url.text = "ftp://thehub.io/jobs/" -> "ftp:"
      [] OTHER -> ""

\* z.string().datetime(): date, time and the Z, nothing left out
IsDateTime(x) ==
    /\ "date" \in DOMAIN x
    /\ x.date # "" /\ x.time # "" /\ x.zone = "Z"

\* schema-validator.ts 26-29: `${path}: ${issue.message}`
Issue(path, message) == path \o ": " \o message

\* z.string().min(1)
StringMin(path, x) ==
    IF x.t # "string" THEN <<Issue(path, IF x.t = "undefined" THEN "Required"
                                         ELSE "Expected string")>>
    ELSE IF TextOf(x) = "" THEN <<Issue(path, "String must contain at least 1 character(s)")>>
    ELSE <<>>

\* z.string().optional()
OptionalString(path, x) ==
    IF x.t \in {"string", "undefined"} THEN <<>> ELSE <<Issue(path, "Expected string")>>

\* z.string().datetime()
DateTimeString(path, x) ==
    IF x.t # "string" THEN <<Issue(path, IF x.t = "undefined" THEN "Required"
                                         ELSE "Expected string")>>
    ELSE IF ~IsDateTime(x) THEN <<Issue(path, "Invalid datetime")>>
    ELSE <<>>

\* z.number()
NumberValue(path, x) ==
    IF x.t # "number" THEN <<Issue(path, IF x.t = "undefined" THEN "Required"
                                         ELSE "Expected number")>>
    ELSE <<>>

\* schemas.ts 52-57: z.string().url().refine(http or https)
UrlString(path, url) ==
    (IF SchemeOf(url) = "" THEN <<Issue(path, "Invalid url")>> ELSE <<>>)
    \o (IF SchemeOf(url) \notin {"http:", "https:"}
        THEN <<Issue(path, "URL must use http or https protocol")>> ELSE <<>>)

\* schemas.ts 10-19: CompanyOutputSchema
CompanyOutputSchema(path, x) ==
    IF x.t # "object" THEN <<Issue(path, IF x.t = "undefined" THEN "Required"
                                         ELSE "Expected object")>>
    ELSE StringMin(path \o ".id", x.id) \o StringMin(path \o ".name", x.name)

\* schemas.ts 24-28 and 61: LocationSchema.optional()
LocationSchema(path, x) ==
    IF x.t \in {"object", "undefined"} THEN <<>> ELSE <<Issue(path, "Expected object")>>

\* schemas.ts 33-36: ViewsSchema
ViewsSchema(path, x) ==
    IF x.t # "object" THEN <<Issue(path, IF x.t = "undefined" THEN "Required"
                                         ELSE "Expected object")>>
    ELSE NumberValue(path \o ".week", x.week) \o NumberValue(path \o ".total", x.total)

\* schemas.ts 49-74: the issues of JobOutputSchema.safeParse(data), the fields
\* in the order of the schema, every field looked at.
JobOutputSchema(data) ==
    StringMin("id", data.id)
    \o UrlString("url", data.url)
    \o StringMin("title", data.title)
    \o CompanyOutputSchema("company", data.company)
    \o LocationSchema("location", data.location)
    \o (IF data.isRemote.t = "boolean" THEN <<>>
        ELSE <<Issue("isRemote", IF data.isRemote.t = "undefined" THEN "Required"
                                 ELSE "Expected boolean")>>)
    \o StringMin("salary", data.salary)
    \o ViewsSchema("views", data.views)
    \o OptionalString("link", data.link)
    \o DateTimeString("createdAt", data.createdAt)
    \o DateTimeString("publishedAt", data.publishedAt)
    \o DateTimeString("scrapedAt", data.scrapedAt)

\* (mutant) only the first issue is reported
validateJobOutputSchemaFirstOnly(data) ==
    LET errors == JobOutputSchema(data) IN
    [isValid |-> errors = <<>>, errors |-> IF errors = <<>> THEN <<>> ELSE <<Head(errors)>>]

\* schema-validator.ts 19-32
validateJobOutputSchema(data) ==
    LET errors == JobOutputSchema(data) IN
    [isValid |-> errors = <<>>, errors |-> errors]

\* (mutant) the placeholder is pushed and the handler throws
HandleNoJobThrows(url, jobId) ==
    [pushed |-> <<ErrorRecord(url, jobId, "Failed to extract job data")>>, threw |-> TRUE]

\* routes.ts (part_005 219-228): extractJobFromHtml gave no job.
HandleNoJob(url, jobId) ==
    [pushed |-> <<ErrorRecord(url, jobId, "Failed to extract job data")>>, threw |-> FALSE]

\* routes.ts (part_005 209-280): the job-detail handler; what it pushes and
\* whether it throws.
jobDetailHandler(request, html) ==
    LET url == request.url
        jobId == request.jobId
        job == extractJobFromHtml(html)
    IN IF job = Null
       THEN HandleNoJob(url, jobId)
       ELSE IF job.company.t # "object"
       THEN [pushed |-> <<ErrorRecord(url, jobId, "TypeError")>>, threw |-> TRUE]
       ELSE [pushed |-> <<JobOutput(job, url)>>, threw |-> FALSE]

\* main.ts 110-120: failedRequestHandler
ErrorFile(request) == [url |-> request.url, retryCount |-> request.retryCount]

Settled(request) == request.state # "queued"

HandledCount == Cardinality({k \in DOMAIN requests : Settled(requests[k])})

\* main.ts 123-126: the crawler takes no new request once maxRequestsPerCrawl
\* requests are handled.
CrawlerMayTake ==
    ~(run.finalMaxRequests > 0) \/ HandledCount < run.finalMaxRequests

PageIdOf(request) == IF request.jobId = Unknown THEN request.url.id ELSE request.jobId

\* The crawler's attempt at request k failed: retried, or failed for good.
AfterFailure(request, attempt) ==
    IF request.retryCount < MaxRetries
    THEN [request EXCEPT !.retryCount = @ + 1, !.attempts = Append(@, attempt)]
    ELSE [request EXCEPT !.state = "failed", !.attempts = Append(@, attempt)]

\* The detail page of request k could not be fetched.
DetailFetchFails(k) ==
    /\ run.pc = "crawling"
    /\ run.crawler = "running"
    /\ k \in DOMAIN requests
    /\ requests[k].state = "queued"
    /\ CrawlerMayTake
    /\ LET r == AfterFailure(requests[k], [got |-> "nothing", outcome |-> "fetch-failed"]) IN
       /\ requests' = [requests EXCEPT ![k] = r]
       /\ kvStore' = IF r.state = "failed" THEN Append(kvStore, ErrorFile(r)) ELSE kvStore
    /\ UNCHANGED <<listing, stream, config, unitTest, run, dataset>>

\* The detail page of request k came in and the job-detail handler ran on it.
HandleJobDetail(k, html) ==
    /\ run.pc = "crawling"
    /\ run.crawler = "running"
    /\ k \in DOMAIN requests
    /\ requests[k].state = "queued"
    /\ CrawlerMayTake
    /\ LET h == jobDetailHandler(requests[k], html)
           attempt == [got |-> IF extractJobFromHtml(html) = Null THEN "null" ELSE "job",
                       outcome |-> IF h.threw THEN "threw" ELSE "returned"]
           r == IF h.threw
                THEN AfterFailure(requests[k], attempt)
                ELSE [requests[k] EXCEPT !.state = "done", !.attempts = Append(@, attempt)]
       IN
       /\ dataset' = dataset \o h.pushed
       /\ requests' = [requests EXCEPT ![k] = r]
       /\ kvStore' = IF r.state = "failed" THEN Append(kvStore, ErrorFile(r)) ELSE kvStore
    /\ UNCHANGED <<listing, stream, config, unitTest, run>>

\* The promise of crawler.run resolves: nothing queued is left to take.
CrawlerFinished ==
    /\ run.pc = "crawling"
    /\ run.crawler = "running"
    /\ \/ \A k \in DOMAIN requests : Settled(requests[k])
       \/ ~CrawlerMayTake
    /\ run' = [run EXCEPT !.crawler = "finished"]
    /\ UNCHANGED <<listing, stream, config, unitTest, crawl>>

\* main.ts 130-134: the awaited crawler.run is over, Actor.exit.
MainExit ==
    /\ run.pc = "crawling"
    /\ run.crawler = "finished"
    /\ stream.pc = "none"
    /\ run' = [run EXCEPT !.pc = "exited"]
    /\ UNCHANGED <<listing, stream, config, unitTest, crawl>>

\* ------------------------------------- the run, streaming (nuxtExtractor.ts)
REGION_CODES == COUNTRY_CODES

\* nuxtExtractor.ts 239
Regions(c) == IF c.countries.given /\ Len(c.countries.list) > 0
              THEN c.countries.list ELSE REGION_CODES

\* nuxtExtractor.ts 321
ValidRegions(c) == SelectSeq(Regions(c), LAMBDA x : x \in Range(REGION_CODES))

\* nuxtExtractor.ts 246-252
StreamFinalMaxRequests(c) ==
    LET isFreeTier == c.isAtHome /\ ~c.userIsPaying
        requested == IF c.MAX_PAGES_TEST # "" THEN ParseInt(c.MAX_PAGES_TEST)
                     ELSE c.maxRequestsPerCrawl
    IN IF isFreeTier /\ (requested = 0 \/ requested > FREE_TIER_ITEM_LIMIT)
       THEN FREE_TIER_ITEM_LIMIT
       ELSE requested

\* (mutant) the filter looks ids up and never adds one
FilterUnseenNoAdd(st, jobs, k) ==
    [seenJobIds |-> st.seenJobIds,
     kept |-> st.kept \o SelectSeq(jobs, LAMBDA job : job.id \notin st.seenJobIds)]

\* nuxtExtractor.ts 336 and 357:
\* jobs.filter((job) => !seenJobIds.has(job.id) && seenJobIds.add(job.id))
RECURSIVE FilterUnseen(_, _, _)
FilterUnseen(st, jobs, k) ==
    IF k > Len(jobs)
    THEN st
    ELSE IF jobs[k].id \notin st.seenJobIds
    THEN FilterUnseen([seenJobIds |-> st.seenJobIds \cup {jobs[k].id},
                       kept |-> Append(st.kept, jobs[k])], jobs, k + 1)
    ELSE FilterUnseen(st, jobs, k + 1)

\* nuxtExtractor.ts 334
FirstPageAll(response) ==
    response.jobs.docs \o
    (IF response.featuredJobs # NoDocs THEN response.featuredJobs.docs ELSE <<>>)

\* nuxtExtractor.ts 333-342: firstPages.flatMap, one region after the other.
RECURSIVE InitialJobs(_, _, _)
InitialJobs(st, firstPages, i) ==
    IF i > Len(firstPages)
    THEN st
    ELSE InitialJobs(FilterUnseen(st, FirstPageAll(firstPages[i].response), 1),
                     firstPages, i + 1)

\* nuxtExtractor.ts 356: responses.flatMap((r) => r.jobs.docs)
RECURSIVE FlatDocs(_, _)
FlatDocs(responses, k) ==
    IF k > Len(responses) THEN <<>>
    ELSE responses[k].jobs.docs \o FlatDocs(responses, k + 1)

\* nuxtExtractor.ts 301-316: single job mode.
StreamSingleJob ==
    /\ run.pc = "start"
    /\ FinalJobUrl(config) # NoUrl
    /\ LET startUrls == SingleStartUrls(FinalJobUrl(config)) IN
       /\ run' = [run EXCEPT !.pc = "crawling", !.crawler = "running",
                             !.finalMaxRequests = StreamFinalMaxRequests(config),
                             !.startUrls = startUrls]
       /\ requests' = startUrls
    /\ UNCHANGED <<listing, stream, config, unitTest, dataset, kvStore>>

\* nuxtExtractor.ts 332-353, once every first page is in: the initial requests,
\* crawler.run(initialRequests), and fetchJobsPage for the pages 2..totalPages
\* of every region that has more than one page.
StreamAfterFirstPages(firstPages, log, finalMaxRequests) ==
    LET st == InitialJobs([seenJobIds |-> stream.seenJobIds, kept |-> <<>>], firstPages, 1)
        initialRequests == StartUrls(st.kept)
        more == {i \in DOMAIN firstPages : firstPages[i].totalPages > 1}
        rest == [i \in DOMAIN firstPages |->
                    [region |-> firstPages[i].region,
                     pc |-> IF i \in more THEN "waiting" ELSE "none",
                     totalPages |-> firstPages[i].totalPages,
                     responses |-> IF i \in more
                                   THEN [k \in 1..(firstPages[i].totalPages - 1) |-> NoResponse]
                                   ELSE <<>>]]
        RECURSIVE CallRest(_, _)
        CallRest(l, i) ==
            IF i > Len(firstPages) THEN l
            ELSE CallRest(IF i \in more
                          THEN CallPages(l, i, firstPages[i].region,
                                         Range(RemainingPages(firstPages[i].totalPages)))
                          ELSE l, i + 1)
    IN
    /\ stream' = [pc |-> IF more = {} THEN "joined" ELSE "rest",
                  seenJobIds |-> st.seenJobIds, firstPages |-> firstPages, rest |-> rest]
    /\ run' = [run EXCEPT !.pc = "crawling", !.crawler = "running",
                          !.finalMaxRequests = finalMaxRequests,
                          !.startUrls = initialRequests]
    /\ requests' = initialRequests
    /\ inflight' = UNION {{[call |-> i, page |-> p] :
                              p \in Range(RemainingPages(firstPages[i].totalPages))} :
                          i \in more}
    /\ pageLog' = CallRest(log, 1)

\* nuxtExtractor.ts 317-330: fetchJobsPage(region, 1) for every valid region.
StreamListJobs ==
    /\ run.pc = "start"
    /\ FinalJobUrl(config) = NoUrl
    /\ LET validRegions == ValidRegions(config) IN
       IF Len(validRegions) = 0
       THEN StreamAfterFirstPages(<<>>, pageLog, StreamFinalMaxRequests(config))
       ELSE /\ run' = [run EXCEPT !.pc = "listing",
                                  !.finalMaxRequests = StreamFinalMaxRequests(config)]
            /\ stream' = [pc |-> "first", seenJobIds |-> {},
                          firstPages |-> [i \in DOMAIN validRegions |-> NoResponse],
                          rest |-> [i \in DOMAIN validRegions |->
                                      [region |-> validRegions[i], pc |-> "none",
                                       totalPages |-> 0, responses |-> <<>>]]]
            /\ pageLog' = CallFirstPages(pageLog, validRegions, 1)
            /\ inflight' = {[call |-> i, page |-> p] :
                               i \in DOMAIN validRegions, p \in FirstPages}
            /\ UNCHANGED requests
    /\ UNCHANGED <<upstream, calls, arrivals, fetchAll, config, unitTest, dataset, kvStore>>

\* The response for page 1 of region i arrives (nuxtExtractor.ts 325-353).
StreamFirstPage(i, status) ==
    /\ [call |-> i, page |-> 1] \in inflight
    /\ run.pc = "listing"
    /\ stream.pc = "first"
    /\ arrivals' = Append(arrivals, <<i, 1>>)
    /\ LET region == stream.rest[i].region
           res == fetchJobsPageResult(status, PageBody(region, 1))
           log == Settle(pageLog, i, 1, status, res)
       IN
       IF res.outcome = "error"
       THEN /\ pageLog' = log
            /\ inflight' = inflight \ {[call |-> i, page |-> 1]}
            /\ stream' = [stream EXCEPT !.pc = "failed"]
            /\ run' = [run EXCEPT !.pc = "failed", !.error = res.error]
            /\ UNCHANGED requests
       ELSE LET firstPages ==
                    [stream.firstPages EXCEPT ![i] =
                        [region |-> region, response |-> res.page,
                         totalPages |-> res.page.jobs.pages]]
            IN
            IF \E j \in DOMAIN firstPages : firstPages[j] = NoResponse
            THEN /\ pageLog' = log
                 /\ inflight' = inflight \ {[call |-> i, page |-> 1]}
                 /\ stream' = [stream EXCEPT !.firstPages = firstPages]
                 /\ UNCHANGED <<run, requests>>
            ELSE StreamAfterFirstPages(firstPages, log, run.finalMaxRequests)
    /\ UNCHANGED <<upstream, calls, fetchAll, config, unitTest, dataset, kvStore>>

\* The response for a page >= 2 of region i arrives (nuxtExtractor.ts 353-367):
\* once the region has all its pages, its unseen jobs go to crawler.addRequests.
StreamRestPage(i, p, status) ==
    /\ p >= 2
    /\ [call |-> i, page |-> p] \in inflight
    /\ run.pc = "crawling"
    /\ stream.pc = "rest"
    /\ arrivals' = Append(arrivals, <<i, p>>)
    /\ inflight' = inflight \ {[call |-> i, page |-> p]}
    /\ LET r == stream.rest[i]
           res == fetchJobsPageResult(status, PageBody(r.region, p))
       IN
       /\ pageLog' = Settle(pageLog, i, p, status, res)
       /\ IF res.outcome = "error"
          THEN /\ stream' = [stream EXCEPT !.pc = "failed", !.rest[i].pc = "failed"]
               /\ run' = [run EXCEPT !.pc = "failed", !.error = res.error]
               /\ UNCHANGED requests
          ELSE LET responses == StoreResponse(r.responses,
                                              IndexOf(RemainingPages(r.totalPages), p),
                                              res.page)
               IN
               IF \E k \in DOMAIN responses : responses[k] = NoResponse
               THEN /\ stream' = [stream EXCEPT !.rest[i].responses = responses]
                    /\ UNCHANGED <<run, requests>>
               ELSE LET st == FilterUnseen([seenJobIds |-> stream.seenJobIds, kept |-> <<>>],
                                           FlatDocs(responses, 1), 1)
                        rest == [stream.rest EXCEPT ![i].responses = responses,
                                                    ![i].pc = "done"]
                    IN
                    /\ stream' = [stream EXCEPT
                                     !.seenJobIds = st.seenJobIds,
                                     !.rest = rest,
                                     !.pc = IF \A j \in DOMAIN rest : rest[j].pc # "waiting"
                                            THEN "joined" ELSE "rest"]
                    /\ requests' = requests \o StartUrls(st.kept)
                    /\ UNCHANGED run
    /\ UNCHANGED <<upstream, calls, fetchAll, config, unitTest, dataset, kvStore>>

\* nuxtExtractor.ts 371-377: every region is through and crawler.run is over.
StreamExit ==
    /\ run.pc = "crawling"
    /\ run.crawler = "finished"
    /\ stream.pc = "joined"
    /\ run' = [run EXCEPT !.pc = "exited"]
    /\ UNCHANGED <<listing, stream, config, unitTest, crawl>>

\* ------------------------------------------ fetchAllJobsForRegion on its own
HarnessRegions == {"FI", "REMOTE"}

InitRegion ==
    /\ \E region \in HarnessRegions, limit \in 0..MaxLimit, d \in RegionData :
          /\ upstream = [r \in {region} |-> d]
          /\ calls = <<RegionCall(region, limit)>>
          /\ pageLog = CallPages(<<>>, 1, region, FirstPages)
    /\ inflight = {[call |-> 1, page |-> p] : p \in FirstPages}
    /\ arrivals = <<>>
    /\ fetchAll = NotCalled
    /\ NoRun

NextRegion ==
    \/ \E i \in DOMAIN calls, s \in StatusCodes : FirstPageResponse(i, s)
    \/ \E i \in DOMAIN calls, p \in 2..MaxPages, s \in StatusCodes :
          RemainingPageResponse(i, p, s)

SpecRegion == InitRegion /\ [][NextRegion]_vars

\* ------------------------------------------------- fetchAllJobs on its own
MaxRegionPages == 2

RegionLists == {<<>>, <<"SE">>, <<"REMOTE", "FI">>}

NoRepeat(s) == \A a, b \in DOMAIN s : a # b => s[a] # s[b]

AggRegionData ==
    UNION {[pages : {n}, featured : FeaturedChoices,
            docs : [1..n -> {d \in DocChoices : NoRepeat(d)}]] : n \in 1..MaxRegionPages}

InitAgg ==
    /\ \E regions \in RegionLists, limit \in 0..MaxLimit :
          /\ upstream \in [Range(regions) -> AggRegionData]
          /\ calls = StartCalls(regions)
          /\ pageLog = CallFirstPages(<<>>, regions, 1)
          /\ inflight = {[call |-> i, page |-> p] : i \in DOMAIN regions, p \in FirstPages}
          /\ fetchAll = fetchAllJobsCall(regions, limit)
    /\ arrivals = <<>>
    /\ NoRun

NextAgg ==
    \/ \E i \in DOMAIN calls, s \in StatusCodes : FirstPageResponse(i, s)
    \/ \E i \in DOMAIN calls, p \in 2..MaxRegionPages, s \in StatusCodes :
          RemainingPageResponse(i, p, s)
    \/ fetchAllJobsMerge

SpecAgg == InitAgg /\ [][NextAgg]_vars

\* ------------------------------------------------------------ the run, main.ts
MainRegionData ==
    UNION {[pages : {n}, featured : {<<>>}, docs : [1..n -> {<<id>> : id \in JobIds}]] :
           n \in 1..MaxRegionPages}

CountryInputs ==
    {[given |-> TRUE, list |-> l] :
        l \in {<<"FI">>, <<"SE", "REMOTE">>, <<"XX", "FI">>, <<"XX">>}}

Configs ==
    [jobUrl : {NoUrl, JobUrl(MaxId + 1)},
     JOB_URL : {NoUrl},
     countries : CountryInputs,
     maxRequestsPerCrawl : 0..2,
     MAX_PAGES_TEST : {""},
     userIsPaying : BOOLEAN,
     isAtHome : {TRUE}]

Init ==
    /\ config \in Configs
    /\ upstream \in [Range(ValidCountries(config)) -> MainRegionData]
    /\ run = [NotRunning EXCEPT !.pc = "start"]
    /\ calls = <<>>
    /\ pageLog = <<>>
    /\ inflight = {}
    /\ arrivals = <<>>
    /\ fetchAll = NotCalled
    /\ stream = NotStreaming
    /\ requests = <<>>
    /\ dataset = <<>>
    /\ kvStore = <<>>
    /\ unitTest = NoTest

Next ==
    \/ MainSingleJob
    \/ MainListJobs
    \/ \E i \in DOMAIN calls, s \in StatusCodes : FirstPageResponse(i, s)
    \/ \E i \in DOMAIN calls, p \in 2..MaxRegionPages, s \in StatusCodes :
          RemainingPageResponse(i, p, s)
    \/ fetchAllJobsMerge
    \/ MainFetchFailed
    \/ MainRunCrawler
    \/ \E k \in DOMAIN requests : DetailFetchFails(k)
    \/ \E k \in DOMAIN requests :
          \E html \in DetailPages(PageIdOf(requests[k])) : HandleJobDetail(k, html)
    \/ CrawlerFinished
    \/ MainExit

Spec == Init /\ [][Next]_vars

\* ------------------------------------------- the run, streaming multi-job mode
StreamRegionData ==
    UNION {[pages : {n}, featured : {<<>>, <<MaxId>>},
            docs : [1..n -> {<<id>> : id \in JobIds}]] : n \in 1..MaxRegionPages}

StreamConfigs ==
    [jobUrl : {NoUrl, JobUrl(MaxId + 1)},
     JOB_URL : {NoUrl},
     countries : {[given |-> TRUE, list |-> l] : l \in {<<"FI">>, <<"SE", "REMOTE">>}},
     maxRequestsPerCrawl : {0},
     MAX_PAGES_TEST : {""},
     userIsPaying : {TRUE},
     isAtHome : {TRUE}]

InitStream ==
    /\ config \in StreamConfigs
    /\ upstream \in [Range(ValidRegions(config)) -> StreamRegionData]
    /\ run = [NotRunning EXCEPT !.pc = "start"]
    /\ calls = <<>>
    /\ pageLog = <<>>
    /\ inflight = {}
    /\ arrivals = <<>>
    /\ fetchAll = NotCalled
    /\ stream = NotStreaming
    /\ requests = <<>>
    /\ dataset = <<>>
    /\ kvStore = <<>>
    /\ unitTest = NoTest

NextStream ==
    \/ StreamSingleJob
    \/ StreamListJobs
    \/ \E i \in DOMAIN stream.rest, s \in StatusCodes : StreamFirstPage(i, s)
    \/ \E i \in DOMAIN stream.rest, p \in 2..MaxRegionPages, s \in StatusCodes :
          StreamRestPage(i, p, s)
    \/ \E k \in DOMAIN requests : DetailFetchFails(k)
    \/ \E k \in DOMAIN requests :
          \E html \in DetailPages(PageIdOf(requests[k])) : HandleJobDetail(k, html)
    \/ CrawlerFinished
    \/ StreamExit

SpecStream == InitStream /\ [][NextStream]_vars

\* --------------------------------------------- the run, single job mode
\* What state.jobs.job of a detail page can hold, field by field.
WideJobFulls(id) ==
    {[GoodJob(id) EXCEPT !.title = title, !.salary = salary, !.isRemote = isRemote,
                         !.createdAt = createdAt, !.publishedAt = publishedAt,
                         !.link = link, !.company = company] :
        title \in {Str("Engineer"), Str("")},
        salary \in {Str("competitive"), Str("")},
        isRemote \in {Bool(TRUE), Str("yes")},
        createdAt \in {Stamp("2025-01-15", "10:00:00.000", "Z"), Stamp("2025-01-15", "", "")},
        publishedAt \in {Stamp("2025-01-16", "10:00:00.000", "Z"), Stamp("", "", ""),
                         Undefined},
        link \in {Str("https://apply.example.com/1"), Str(""), Undefined},
        company \in {Company(Str("Acme")), Undefined}}

WideDetailPages(id) ==
    {NoScriptPage, EvalThrowsPage, NoJobPathPage} \cup {JobPage(j) : j \in WideJobFulls(id)}

SingleConfigs ==
    {c \in [jobUrl : {NoUrl, JobUrl(1), OtherUrl},
            JOB_URL : {NoUrl, JobUrl(MaxId)},
            countries : {[given |-> FALSE, list |-> <<>>]},
            maxRequestsPerCrawl : {0, 1},
            MAX_PAGES_TEST : {""},
            userIsPaying : BOOLEAN,
            isAtHome : {TRUE}] : FinalJobUrl(c) # NoUrl}

InitSingle ==
    /\ config \in SingleConfigs
    /\ upstream = <<>>
    /\ run = [NotRunning EXCEPT !.pc = "start"]
    /\ calls = <<>>
    /\ pageLog = <<>>
    /\ inflight = {}
    /\ arrivals = <<>>
    /\ fetchAll = NotCalled
    /\ stream = NotStreaming
    /\ requests = <<>>
    /\ dataset = <<>>
    /\ kvStore = <<>>
    /\ unitTest = NoTest

NextSingle ==
    \/ MainSingleJob
    \/ \E k \in DOMAIN requests : DetailFetchFails(k)
    \/ \E k \in DOMAIN requests :
          \E html \in WideDetailPages(PageIdOf(requests[k])) : HandleJobDetail(k, html)
    \/ CrawlerFinished
    \/ MainExit

SpecSingle == InitSingle /\ [][NextSingle]_vars

\* ------------------------------------- the unit tests of the schema validator
\* schema.test.ts (part_004 6-39): validJobData
validJobData == JobOutput(GoodJob(1), JobUrl(1))

\* { ...validJobData, <field>: <value>, ... } as the tests build their data
SchemaTestData ==
    {[validJobData EXCEPT !.id = id, !.url = url, !.title = title, !.company = company,
                          !.location = location, !.isRemote = isRemote, !.views = views,
                          !.createdAt = createdAt] :
        id \in {Str("1"), Str("")},
        url \in {JobUrl(1), NoUrl, [text |-> "ftp://thehub.io/jobs/", id |-> 1]},
        title \in {Str("Engineer"), Str("")},
        company \in {Company(Str("Acme")), Company(Str("")), Undefined},
        location \in {validJobData.location, Undefined},
        isRemote \in {Bool(TRUE), Str("yes"), Undefined},
        views \in {validJobData.views, Undefined},
        createdAt \in {validJobData.createdAt, Stamp("2025-01-15", "", "")}}

InitSchemaTest ==
    /\ unitTest \in {[pc |-> "given", data |-> d] : d \in SchemaTestData}
    /\ upstream = <<>>
    /\ calls = <<>>
    /\ pageLog = <<>>
    /\ inflight = {}
    /\ arrivals = <<>>
    /\ fetchAll = NotCalled
    /\ config = NoConfig
    /\ stream = NotStreaming
    /\ run = NotRunning
    /\ requests = <<>>
    /\ dataset = <<>>
    /\ kvStore = <<>>

\* const result = validateJobOutputSchema(data)
ValidateTestData ==
    /\ unitTest.pc = "given"
    /\ unitTest' = [pc |-> "validated", data |-> unitTest.data,
                    result |-> validateJobOutputSchema(unitTest.data)]
    /\ UNCHANGED <<listing, stream, config, run, crawl>>

NextSchemaTest == ValidateTestData

SpecSchemaTest == InitSchemaTest /\ [][NextSchemaTest]_vars

\* ------------------------------------ the run, with more jobs than the free tier
\* One region with two pages: FREE_TIER_ITEM_LIMIT jobs, then MaxOver more.
TierRegionData ==
    [pages |-> 2, featured |-> <<>>,
     docs |-> <<[k \in 1..FREE_TIER_ITEM_LIMIT |-> k],
                [k \in 1..MaxOver |-> FREE_TIER_ITEM_LIMIT + k]>>]

TierRequested == {0 - 1, 0, 1, FREE_TIER_ITEM_LIMIT, FREE_TIER_ITEM_LIMIT + 1}

TierConfigs ==
    [jobUrl : {NoUrl},
     JOB_URL : {NoUrl},
     countries : {[given |-> TRUE, list |-> <<"FI">>]},
     maxRequestsPerCrawl : TierRequested,
     MAX_PAGES_TEST : {""} \cup {ToString(n) : n \in TierRequested},
     userIsPaying : BOOLEAN,
     isAtHome : {TRUE}]

InitTier ==
    /\ config \in TierConfigs
    /\ upstream = [r \in {"FI"} |-> TierRegionData]
    /\ run = [NotRunning EXCEPT !.pc = "start"]
    /\ calls = <<>>
    /\ pageLog = <<>>
    /\ inflight = {}
    /\ arrivals = <<>>
    /\ fetchAll = NotCalled
    /\ stream = NotStreaming
    /\ requests = <<>>
    /\ dataset = <<>>
    /\ kvStore = <<>>
    /\ unitTest = NoTest

NextTier ==
    \/ MainListJobs
    \/ \E i \in DOMAIN calls, s \in StatusCodes : FirstPageResponse(i, s)
    \/ \E i \in DOMAIN calls, s \in StatusCodes : RemainingPageResponse(i, 2, s)
    \/ fetchAllJobsMerge
    \/ MainFetchFailed
    \/ MainRunCrawler

SpecTier == InitTier /\ [][NextTier]_vars

\* The batch run with no country list, or an empty one, in the input; every
\* region has one page with one job and answers.
DefaultRegionData == {[pages |-> 1, featured |-> <<>>, docs |-> <<<<1>>>>]}

DefaultConfigs ==
    [jobUrl : {NoUrl},
     JOB_URL : {NoUrl},
     countries : {[given |-> FALSE, list |-> <<>>], [given |-> TRUE, list |-> <<>>]},
     maxRequestsPerCrawl : {0},
     MAX_PAGES_TEST : {""},
     userIsPaying : {TRUE},
     isAtHome : {TRUE}]

InitDefault ==
    /\ config \in DefaultConfigs
    /\ upstream \in [Range(ValidCountries(config)) -> DefaultRegionData]
    /\ run = [NotRunning EXCEPT !.pc = "start"]
    /\ calls = <<>>
    /\ pageLog = <<>>
    /\ inflight = {}
    /\ arrivals = <<>>
    /\ fetchAll = NotCalled
    /\ stream = NotStreaming
    /\ requests = <<>>
    /\ dataset = <<>>
    /\ kvStore = <<>>
    /\ unitTest = NoTest

NextDefault ==
    \/ MainListJobs
    \/ \E i \in DOMAIN calls : FirstPageResponse(i, 200)
    \/ fetchAllJobsMerge
    \/ MainRunCrawler

SpecDefault == InitDefault /\ [][NextDefault]_vars

\* A caller of extractJobFromHtml with two documents, one after the other
\* (routes.ts, part_005 217: const job = extractJobFromHtml(html)).
ExtractTestPages == UNION {DetailPages(id) : id \in JobIds}

InitExtractTest ==
    /\ unitTest \in {[pc |-> "extracting", docs |-> <<a, b>>, results |-> <<>>] :
                         a \in ExtractTestPages, b \in ExtractTestPages}
    /\ upstream = <<>>
    /\ calls = <<>>
    /\ pageLog = <<>>
    /\ inflight = {}
    /\ arrivals = <<>>
    /\ fetchAll = NotCalled
    /\ config = NoConfig
    /\ stream = NotStreaming
    /\ run = NotRunning
    /\ requests = <<>>
    /\ dataset = <<>>
    /\ kvStore = <<>>

\* A page whose payload is a script that runs without end, such as
\* window.__NUXT__=(function(){for(;;){}}())
LoopsPage == [kind |-> "eval-loops", job |-> Null]

\* nuxtExtractor.ts 33: eval(nuxtCode) runs the payload on the calling thread,
\* with nothing that interrupts it; the call returns when the payload does.
EvalReturns(html) == html.kind # "eval-loops"

ExtractNext ==
    /\ unitTest.pc = "extracting"
    /\ Len(unitTest.results) < Len(unitTest.docs)
    /\ EvalReturns(unitTest.docs[Len(unitTest.results) + 1])
    /\ unitTest' = [unitTest EXCEPT !.results =
                       Append(@, extractJobFromHtml(unitTest.docs[Len(@) + 1]))]
    /\ UNCHANGED <<listing, stream, config, run, crawl>>

NextExtractTest == ExtractNext

SpecExtractTest == InitExtractTest /\ [][NextExtractTest]_vars

\* The same caller when a page may carry a payload that runs without end. A
\* call that can return does return.
InitEvalTest ==
    /\ unitTest \in {[pc |-> "extracting", docs |-> <<a, b>>, results |-> <<>>] :
                         a \in ExtractTestPages \cup {LoopsPage},
                         b \in ExtractTestPages \cup {LoopsPage}}
    /\ upstream = <<>>
    /\ calls = <<>>
    /\ pageLog = <<>>
    /\ inflight = {}
    /\ arrivals = <<>>
    /\ fetchAll = NotCalled
    /\ config = NoConfig
    /\ stream = NotStreaming
    /\ run = NotRunning
    /\ requests = <<>>
    /\ dataset = <<>>
    /\ kvStore = <<>>

SpecEvalTest == InitEvalTest /\ [][NextExtractTest]_vars /\ WF_vars(ExtractNext)

\* ------------------------------------------------ translateJobPositionTypes
\* types.ts 11-19
JOB_POSITION_TYPE_MAP ==
    ("5b8e46b3853f039706b6ea70" :> "Full-time") @@
    ("5b8e46b3853f039706b6ea71" :> "Part-time") @@
    ("5b8e46b3853f039706b6ea72" :> "Student") @@
    ("5b8e46b3853f039706b6ea73" :> "Internship") @@
    ("5b8e46b3853f039706b6ea74" :> "Cofounder") @@
    ("5b8e46b3853f039706b6ea75" :> "Freelance") @@
    ("62e28180d8cca695ee60c98e" :> "Advisory board")

\* The names every object made by an object literal inherits from
\* Object.prototype (some of them).
ObjectPrototypeNames == {"constructor", "toString", "hasOwnProperty"}

\* obj[key] for an object literal of strings: an own property, else an
\* inherited one, else undefined.
PropertyOf(obj, key) ==
    IF key \in DOMAIN obj THEN Str(obj[key])
    ELSE IF key \in ObjectPrototypeNames THEN [t |-> "function", name |-> key]
    ELSE Undefined

\* types.ts 24-26: ids.map((id) => JOB_POSITION_TYPE_MAP[id] || id)
translateJobPositionTypes(ids) ==
    [k \in DOMAIN ids |-> OrElse(PropertyOf(JOB_POSITION_TYPE_MAP, TextOf(ids[k])), ids[k])]

\* The ids of the tests (part_002 157-189), the empty string and a name that
\* Object.prototype has.
TranslateTestIds ==
    {Str(t) : t \in {"5b8e46b3853f039706b6ea70", "5b8e46b3853f039706b6ea71",
                      "5b8e46b3853f039706b6ea73", "62e28180d8cca695ee60c98e",
                      "unknown-id-123", "unknown-id", "", "constructor"}}

InitTranslateTest ==
    /\ unitTest \in {[pc |-> "given", ids |-> ids] :
                         ids \in UNION {[1..n -> TranslateTestIds] : n \in 0..MaxIds}}
    /\ upstream = <<>>
    /\ calls = <<>>
    /\ pageLog = <<>>
    /\ inflight = {}
    /\ arrivals = <<>>
    /\ fetchAll = NotCalled
    /\ config = NoConfig
    /\ stream = NotStreaming
    /\ run = NotRunning
    /\ requests = <<>>
    /\ dataset = <<>>
    /\ kvStore = <<>>

\* const result = translateJobPositionTypes(ids)
TranslateTestIdsCall ==
    /\ unitTest.pc = "given"
    /\ "ids" \in DOMAIN unitTest
    /\ unitTest' = [pc |-> "translated", ids |-> unitTest.ids,
                    result |-> translateJobPositionTypes(unitTest.ids)]
    /\ UNCHANGED <<listing, stream, config, run, crawl>>

NextTranslateTest == TranslateTestIdsCall

SpecTranslateTest == InitTranslateTest /\ [][NextTranslateTest]_vars

\* The listing side of the streaming run on its own (what the crawler does with
\* the requests has no part in it), regions of up to MaxPages pages.
ListingRegionData ==
    UNION {[pages : {n}, featured : {<<>>}, docs : [1..n -> {<<id>> : id \in JobIds}]] :
           n \in 1..MaxPages}

ListingConfigs ==
    [jobUrl : {NoUrl},
     JOB_URL : {NoUrl},
     countries : {[given |-> TRUE, list |-> l] : l \in {<<"SE", "REMOTE">>}},
     maxRequestsPerCrawl : {0},
     MAX_PAGES_TEST : {""},
     userIsPaying : {TRUE},
     isAtHome : {TRUE}]

InitStreamListing ==
    /\ config \in ListingConfigs
    /\ upstream \in [Range(ValidRegions(config)) -> ListingRegionData]
    /\ run = [NotRunning EXCEPT !.pc = "start"]
    /\ calls = <<>>
    /\ pageLog = <<>>
    /\ inflight = {}
    /\ arrivals = <<>>
    /\ fetchAll = NotCalled
    /\ stream = NotStreaming
    /\ requests = <<>>
    /\ dataset = <<>>
    /\ kvStore = <<>>
    /\ unitTest = NoTest

NextStreamListing ==
    \/ StreamListJobs
    \/ \E i \in DOMAIN stream.rest, s \in StatusCodes : StreamFirstPage(i, s)
    \/ \E i \in DOMAIN stream.rest, p \in 2..MaxPages, s \in StatusCodes :
          StreamRestPage(i, p, s)

SpecStreamListing == InitStreamListing /\ [][NextStreamListing]_vars

\* The streaming run with a maximum asked for.
StreamLimitConfigs ==
    [jobUrl : {NoUrl, JobUrl(MaxId + 1)},
     JOB_URL : {NoUrl},
     countries : {[given |-> TRUE, list |-> l] : l \in {<<"FI">>, <<"XX", "FI">>}},
     maxRequestsPerCrawl : {1},
     MAX_PAGES_TEST : {""},
     userIsPaying : {TRUE},
     isAtHome : {TRUE}]

InitStreamLimit ==
    /\ config \in StreamLimitConfigs
    /\ upstream \in [Range(ValidRegions(config)) -> StreamRegionData]
    /\ run = [NotRunning EXCEPT !.pc = "start"]
    /\ calls = <<>>
    /\ pageLog = <<>>
    /\ inflight = {}
    /\ arrivals = <<>>
    /\ fetchAll = NotCalled
    /\ stream = NotStreaming
    /\ requests = <<>>
    /\ dataset = <<>>
    /\ kvStore = <<>>
    /\ unitTest = NoTest

SpecStreamLimit == InitStreamLimit /\ [][NextStream]_vars

\* fetchAllJobsForRegion on its own, or the streaming run
InitPages == InitRegion \/ InitStream

NextPages == NextRegion \/ NextStream

SpecPages == InitPages /\ [][NextPages]_vars

\* ---------------------------------------------------------- properties
Min(a, b) == IF a < b THEN a ELSE b

\* The docs of pages p..pages of a region, in page order.
RECURSIVE PagesFrom(_, _)
PagesFrom(region, p) ==
    IF p > upstream[region].pages
    THEN <<>>
    ELSE JobsOf(upstream[region].docs[p], region, p, FALSE) \o PagesFrom(region, p + 1)

\* Page 1's docs, page 1's featured docs, then the docs of pages 2..pages.
WholeRegion(region) ==
    JobsOf(upstream[region].docs[1], region, 1, FALSE)
    \o JobsOf(upstream[region].featured, region, 1, TRUE)
    \o PagesFrom(region, 2)

\* The listings pages 1..p-1 of a region supply.
RECURSIVE CountBefore(_, _)
CountBefore(region, p) ==
    IF p <= 1 THEN 0
    ELSE IF p = 2 THEN Len(upstream[region].docs[1]) + Len(upstream[region].featured)
    ELSE CountBefore(region, p - 1) + Len(upstream[region].docs[p - 1])

PagesCalled(i) == {k[2] : k \in {x \in DOMAIN pageLog : x[1] = i}}

\* C1: for a region whose page 1 reports pages = N >= 1, fetchAllJobsForRegion
\* with limit 0 calls fetchJobsPage exactly once for each of the pages 1..N and
\* for no other page, and returns page 1's docs, page 1's featured docs, then
\* the docs of pages 2..N in page order, nothing added and nothing dropped.
C1_PaginationComplete ==
    \A i \in DOMAIN calls :
        LET c == calls[i] IN
        (c.limit = 0 /\ c.totalPages >= 1) =>
            /\ PagesCalled(i) = 1..c.totalPages
            /\ \A p \in 1..c.totalPages :
                   pageLog[<<i, p>>].called = 1 /\ pageLog[<<i, p>>].http = 1
            /\ c.pc = "done" => c.allJobs = WholeRegion(c.region)

C1_Witness ==
    \E i \in DOMAIN calls :
        /\ calls[i].limit = 0 /\ calls[i].pc = "done" /\ calls[i].totalPages = MaxPages
        /\ upstream[calls[i].region].featured # <<>>
        /\ \A p \in 1..MaxPages : upstream[calls[i].region].docs[p] # <<>>

\* C6 as stated: with limit L > 0 no fetchJobsPage call is made for a page when
\* the pages before it already supplied L or more listings.
C6_StopsIssuingAtLimit ==
    \A k \in DOMAIN pageLog :
        LET c == calls[k[1]] IN
        (c.limit > 0 /\ k[2] >= 2) => CountBefore(c.region, k[2]) < c.limit

\* C6 amended: with limit L > 0 no page >= 2 is requested when page 1 (docs and
\* featured docs) already supplied L or more listings; when page 1 supplied
\* fewer, the pages 2..N are all requested at once, and reaching L on a later
\* page only stops the accumulation: no page after it is added to the result.
C6_StopsAfterFirstPage ==
    \A i \in DOMAIN calls :
        LET c == calls[i] IN
        (c.limit > 0 /\ c.totalPages >= 1) =>
            /\ CountBefore(c.region, 2) >= c.limit => PagesCalled(i) = {1}
            /\ CountBefore(c.region, 2) < c.limit => PagesCalled(i) = 1..c.totalPages
            /\ \A n \in DOMAIN c.allJobs :
                   CountBefore(c.region, c.allJobs[n].page) < c.limit

C6_Witness ==
    \E i \in DOMAIN calls :
        /\ calls[i].limit > 0 /\ calls[i].pc = "done" /\ calls[i].totalPages = MaxPages
        /\ <<i, MaxPages>> \in DOMAIN pageLog
        /\ CountBefore(calls[i].region, MaxPages) >= calls[i].limit
        /\ \A n \in DOMAIN calls[i].allJobs : calls[i].allJobs[n].page < MaxPages

\* C9: every fetchJobsPage call issues exactly one HTTP request; a response
\* whose status is not a success status makes the call throw an error carrying
\* that status, never return a page, and the request is not issued again.
C9_OneRequestNoRetry ==
    \A k \in DOMAIN pageLog :
        LET e == pageLog[k] IN
        /\ e.http = e.called
        /\ (e.outcome # "pending" /\ ~ResponseOk(e.status)) =>
               (e.outcome = "error" /\ e.errorStatus = e.status)
        /\ e.outcome = "page" => ResponseOk(e.status)

C9_Witness ==
    \E k \in DOMAIN pageLog :
        /\ k[2] >= 2
        /\ pageLog[k].outcome = "error" /\ pageLog[k].status = 503
        /\ pageLog[k].http = 1

\* The results of the regions of fetchAllJobs, one after the other.
RECURSIVE FlatFrom(_, _)
FlatFrom(regions, i) ==
    IF i > Len(regions) THEN <<>> ELSE WholeRegion(regions[i]) \o FlatFrom(regions, i + 1)

Flat == FlatFrom(fetchAll.regions, 1)

IdsOf(jobs) == {jobs[k].id : k \in DOMAIN jobs}

IsFirstOccurrence(jobs, k) == \A j \in 1..(k - 1) : jobs[j].id # jobs[k].id

\* The first occurrence of every id of jobs, in the order of jobs.
RECURSIVE FirstOccurrences(_, _)
FirstOccurrences(jobs, k) ==
    IF k > Len(jobs) THEN <<>>
    ELSE (IF IsFirstOccurrence(jobs, k) THEN <<jobs[k]>> ELSE <<>>)
         \o FirstOccurrences(jobs, k + 1)

\* C2: for any regions, upstream data and limit L > 0, the list fetchAllJobs
\* returns has length min(L, number of distinct job ids in the results of the
\* requested regions), and so never more than L.
C2_LimitTruncation ==
    (fetchAll.pc = "returned" /\ fetchAll.limit > 0) =>
        /\ Len(fetchAll.allJobs) = Min(fetchAll.limit, Cardinality(IdsOf(Flat)))
        /\ Len(fetchAll.allJobs) <= fetchAll.limit

C2_Witness ==
    /\ fetchAll.pc = "returned" /\ fetchAll.limit > 0
    /\ Len(fetchAll.regions) = 2
    /\ Cardinality(IdsOf(Flat)) > fetchAll.limit
    /\ Len(fetchAll.allJobs) = fetchAll.limit

\* C3: the list fetchAllJobs returns holds no job id twice, and every entry is
\* the first occurrence of its id in the order of the regions argument and,
\* inside a region, of that region's result; without a limit every id of every
\* region's result is kept, exactly once.
C3_CrossRegionDedup ==
    fetchAll.pc = "returned" =>
        /\ \A a, b \in DOMAIN fetchAll.allJobs :
               a # b => fetchAll.allJobs[a].id # fetchAll.allJobs[b].id
        /\ \A a \in DOMAIN fetchAll.allJobs :
               \E k \in DOMAIN Flat :
                   Flat[k] = fetchAll.allJobs[a] /\ IsFirstOccurrence(Flat, k)
        /\ fetchAll.limit = 0 => IdsOf(fetchAll.allJobs) = IdsOf(Flat)

C3_Witness ==
    /\ fetchAll.pc = "returned" /\ Len(fetchAll.regions) = 2
    /\ \E id \in JobIds :
          /\ id \in IdsOf(WholeRegion(fetchAll.regions[1]))
          /\ id \in IdsOf(WholeRegion(fetchAll.regions[2]))
          /\ \E a \in DOMAIN fetchAll.allJobs :
                 fetchAll.allJobs[a].id = id
                 /\ fetchAll.allJobs[a].region = fetchAll.regions[1]

C4_RemoteEncoding ==
    \A k \in DOMAIN pageLog :
        LET e == pageLog[k] IN
        /\ e.url.page = k[2]
        /\ e.region = "REMOTE" => (e.url.isRemote = "true" /\ e.url.countryCode = Absent)
        /\ e.region # "REMOTE" => (e.url.countryCode = e.region /\ e.url.isRemote = Absent)
        /\ e.url.countryCode # "REMOTE"

C4_Witness ==
    \E k \in DOMAIN pageLog :
        /\ k[2] >= 2 /\ pageLog[k].region = "REMOTE" /\ pageLog[k].outcome = "page"
        /\ \E j \in DOMAIN pageLog : j[2] >= 2 /\ pageLog[j].region = "SE"

IsPrefix(a, b) == Len(a) <= Len(b) /\ \A n \in DOMAIN a : a[n] = b[n]

FirstPageOf(region) ==
    JobsOf(upstream[region].docs[1], region, 1, FALSE)
    \o JobsOf(upstream[region].featured, region, 1, TRUE)

\* C5: within one region no request for a page >= 2 is issued before the
\* request for page 1 has completed and page 1's docs and featured docs have
\* been accumulated (in allJobs by fetchAllJobsForRegion, in the initial
\* requests and seenJobIds by the streaming run).
C5_FirstPageFirst ==
    \A k \in DOMAIN pageLog :
        k[2] >= 2 =>
            /\ <<k[1], 1>> \in DOMAIN pageLog
            /\ pageLog[<<k[1], 1>>].outcome = "page"
            /\ k[1] \in DOMAIN calls =>
                   IsPrefix(FirstPageOf(pageLog[k].region), calls[k[1]].allJobs)
            /\ k[1] \in DOMAIN stream.rest =>
                   /\ stream.firstPages[k[1]] # NoResponse
                   /\ IdsOf(FirstPageOf(pageLog[k].region)) \subseteq stream.seenJobIds
                   /\ \A id \in IdsOf(FirstPageOf(pageLog[k].region)) :
                          \E n \in DOMAIN requests : requests[n].jobId = id

C5_Witness ==
    \E k \in DOMAIN pageLog :
        /\ k[2] >= 2 /\ pageLog[k].outcome = "pending"
        /\ k[1] \in DOMAIN stream.rest
        /\ upstream[pageLog[k].region].featured # <<>>
        /\ Cardinality(IdsOf(FirstPageOf(pageLog[k].region))) = 2

C5_WitnessRegion ==
    \E k \in DOMAIN pageLog :
        /\ k[2] >= 2 /\ pageLog[k].outcome = "pending"
        /\ k[1] \in DOMAIN calls
        /\ upstream[pageLog[k].region].featured # <<>>

\* C8: if any fetchJobsPage call of any region fails, fetchAllJobs fails as a
\* whole: it rejects with that call's error, returns no list built from the
\* regions that succeeded, and the run hands no job-detail request to the
\* crawler.
C8_RegionFailureIsFatal ==
    (\E k \in DOMAIN pageLog : pageLog[k].outcome = "error") =>
        /\ fetchAll.pc = "rejected"
        /\ \E k \in DOMAIN pageLog :
               /\ pageLog[k].outcome = "error"
               /\ fetchAll.error = [message |-> "API error", status |-> pageLog[k].status]
        /\ fetchAll.allJobs = <<>>
        /\ run.pc \in {"listing", "failed"}
        /\ run.pc = "failed" => run.error = fetchAll.error
        /\ run.startUrls = <<>>
        /\ run.crawler = "idle"
        /\ requests = <<>>

C8_Witness ==
    /\ run.pc = "failed" /\ fetchAll.pc = "rejected"
    /\ \E i, j \in DOMAIN calls :
          /\ calls[i].pc = "done" /\ calls[i].allJobs # <<>>
          /\ calls[j].pc = "failed"
    /\ requests = <<>>

PlaceholdersFor(request, error) ==
    {n \in DOMAIN dataset : dataset[n] = ErrorRecord(request.url, request.jobId, error)}

\* C10: when extractJobFromHtml gives the job-detail handler no record, the
\* handler pushes one error placeholder (url, jobId, error text, timestamp)
\* and returns without throwing: the request counts as handled, it is not
\* retried, the run is not aborted, and the run ends only when the other
\* requests are handled too.
C10_NoJobIsRecorded ==
    /\ \A k \in DOMAIN requests :
          LET r == requests[k]
              nulls == {a \in DOMAIN r.attempts : r.attempts[a].got = "null"}
          IN
          /\ \A a \in nulls :
                 /\ r.attempts[a].outcome = "returned"
                 /\ a = Len(r.attempts)
                 /\ r.state = "done"
          /\ Cardinality(PlaceholdersFor(r, "Failed to extract job data")) = Cardinality(nulls)
          /\ nulls # {} => run.pc \in {"crawling", "exited"}
    /\ run.pc = "exited" => \A k \in DOMAIN requests : Settled(requests[k])

C10_Witness ==
    /\ run.pc = "exited"
    /\ Len(requests) = 2
    /\ requests[1].attempts = <<[got |-> "null", outcome |-> "returned"]>>
    /\ dataset = <<ErrorRecord(requests[1].url, requests[1].jobId,
                               "Failed to extract job data"),
                   JobOutput(GoodJob(requests[2].jobId), requests[2].url)>>

IsPlaceholder(record) == "error" \in DOMAIN record

\* The records in the dataset that are about a request, by its url.
RecordsFor(request) == {n \in DOMAIN dataset : dataset[n].url = request.url}

\* C11: when the run has ended, every request handed to the crawler has a
\* record in the dataset, and every request whose processing failed (the
\* handler threw, or the detail page could not be fetched, on every attempt the
\* crawler made) has an error placeholder there.
C11_EveryFailureHasPlaceholder ==
    run.pc = "exited" =>
        \A k \in DOMAIN requests :
            /\ RecordsFor(requests[k]) # {}
            /\ requests[k].state = "failed" =>
                   \E n \in RecordsFor(requests[k]) : IsPlaceholder(dataset[n])

\* C12: every record in the dataset that is not an error placeholder satisfies
\* JobOutputSchema: a record extracted with, say, an empty title or salary or a
\* createdAt that is not a full date-time is never there as an output record.
C12_OutputsSatisfySchema ==
    \A n \in DOMAIN dataset :
        ~IsPlaceholder(dataset[n]) => validateJobOutputSchema(dataset[n]).isValid

\* The fields of a record that break their own constraint of JobOutputSchema,
\* stated field by field, without the validator.
ViolatedFields(data) ==
    {f \in {"id", "title", "salary"} : ~(data[f].t = "string" /\ TextOf(data[f]) # "")}
    \cup {f \in {"url"} : data.url.text \notin {JobUrl(1).text, OtherUrl.text}}
    \cup {f \in {"company"} :
             ~(data.company.t = "object" /\ data.company.id.v # ""
               /\ data.company.name.v # "")}
    \cup {f \in {"location"} : data.location.t \notin {"object", "undefined"}}
    \cup {f \in {"isRemote"} : data.isRemote.t # "boolean"}
    \cup {f \in {"views"} : data.views.t # "object"}
    \cup {f \in {"createdAt", "publishedAt", "scrapedAt"} :
             ~(data[f].t = "string" /\ "zone" \in DOMAIN data[f] /\ data[f].zone = "Z"
               /\ data[f].time # "" /\ data[f].date # "")}

\* The paths an issue about a field can carry.
PathsOf(f) ==
    IF f = "company" THEN {"company", "company.id", "company.name"}
    ELSE IF f = "views" THEN {"views", "views.week", "views.total"}
    ELSE {f}

IssueMessages ==
    {"Required", "Expected string", "Expected boolean", "Expected object",
     "Expected number", "String must contain at least 1 character(s)", "Invalid url",
     "URL must use http or https protocol", "Invalid datetime"}

ErrorsAbout(errors, f) ==
    {n \in DOMAIN errors : \E path \in PathsOf(f), m \in IssueMessages :
                               errors[n] = Issue(path, m)}

\* C13: for a record that violates the constraints of k >= 2 different fields,
\* validateJobOutputSchema returns isValid = false and at least one error for
\* each of the k fields, not only for the first one found (and no error about
\* a field that is in order).
C13_AllViolationsReported ==
    unitTest.pc = "validated" =>
        LET data == unitTest.data
            result == unitTest.result
        IN
        /\ result.isValid <=> ViolatedFields(data) = {}
        /\ \A f \in ViolatedFields(data) : ErrorsAbout(result.errors, f) # {}
        /\ \A n \in DOMAIN result.errors :
               \E f \in ViolatedFields(data) : n \in ErrorsAbout(result.errors, f)

\* the test "should report multiple errors at once": id '', title '', isRemote 'yes'
C13_Witness ==
    /\ unitTest.pc = "validated"
    /\ unitTest.data = [validJobData EXCEPT !.id = Str(""), !.title = Str(""),
                                            !.isRemote = Str("yes")]
    /\ ~unitTest.result.isValid
    /\ Len(unitTest.result.errors) = 3

\* The maximum the run was asked for: MAX_PAGES_TEST when set, else the input.
Requested(c) ==
    IF c.MAX_PAGES_TEST # "" THEN ParseInt(c.MAX_PAGES_TEST) ELSE c.maxRequestsPerCrawl

\* C14: on the free tier, for every maxRequestsPerCrawl and MAX_PAGES_TEST, the
\* effective maximum is FREE_TIER_ITEM_LIMIT when the requested maximum is 0 or
\* greater than it and the requested maximum otherwise, and the run hands no
\* more than FREE_TIER_ITEM_LIMIT job-detail requests to the crawler.
C14_FreeTierCap ==
    (~config.userIsPaying /\ run.pc # "start") =>
        /\ run.finalMaxRequests =
               IF Requested(config) = 0 \/ Requested(config) > FREE_TIER_ITEM_LIMIT
               THEN FREE_TIER_ITEM_LIMIT
               ELSE Requested(config)
        /\ Len(requests) <= FREE_TIER_ITEM_LIMIT

\* C15: in multi-job mode with an effective limit L > 0 the requests handed to
\* the crawler are one per unique job the listing stage kept, each with the url
\* https://thehub.io/jobs/<id>, and there are never more than L of them.
C15_DispatchWithinLimit ==
    (FinalJobUrl(config) = NoUrl /\ run.finalMaxRequests > 0
     /\ run.pc \in {"crawling", "exited"}) =>
        /\ Len(requests) <= run.finalMaxRequests
        /\ \A a, b \in DOMAIN requests : a # b => requests[a].jobId # requests[b].jobId
        /\ \A a \in DOMAIN requests : requests[a].url = JobUrl(requests[a].jobId)
        /\ fetchAll.pc = "returned" =>
               [a \in DOMAIN requests |-> requests[a].jobId]
                   = [a \in DOMAIN fetchAll.allJobs |-> fetchAll.allJobs[a].id]
        /\ stream.pc # "none" =>
               {requests[a].jobId : a \in DOMAIN requests} = stream.seenJobIds


\* C16: with a single-job url configured (JOB_URL, or jobUrl when JOB_URL is
\* not set) the run sends no listing request and hands the crawler exactly one
\* job-detail request, for that url.
C16_SingleJobOneRequest ==
    ((config.JOB_URL # NoUrl \/ config.jobUrl # NoUrl)
     /\ run.pc \in {"crawling", "exited"}) =>
        /\ calls = <<>>
        /\ pageLog = <<>>
        /\ inflight = {}
        /\ Len(requests) = 1
        /\ config.JOB_URL # NoUrl => requests[1].url = config.JOB_URL
        /\ config.JOB_URL = NoUrl => requests[1].url = config.jobUrl

C16_Witness ==
    /\ config.JOB_URL # NoUrl
    /\ config.jobUrl # NoUrl
    /\ config.jobUrl # config.JOB_URL
    /\ run.pc = "exited"
    /\ Len(requests) = 1
    /\ requests[1].url = config.JOB_URL
    /\ requests[1].state = "done"
    /\ calls = <<>>


\* C17: a multi-job run whose configured list holds a value outside the
\* recognized set ends with a fatal error before any listing request, also
\* when recognized values stand next to it.
HasUnrecognized(list) == \E k \in DOMAIN list : list[k] \notin Range(COUNTRY_CODES)

C17_UnrecognizedRegionIsFatal ==
    (config.JOB_URL = NoUrl /\ config.jobUrl = NoUrl
     /\ config.countries.given /\ HasUnrecognized(config.countries.list)
     /\ run.pc # "start") =>
        /\ run.pc = "failed"
        /\ pageLog = <<>>
        /\ calls = <<>>


\* C18: whatever the configured list holds, every region a listing request is
\* sent for is a recognized one.
C18_OnlyRecognizedRegionsRequested ==
    /\ \A k \in DOMAIN pageLog : pageLog[k].region \in Range(COUNTRY_CODES)
    /\ \A i \in DOMAIN calls : calls[i].region \in Range(COUNTRY_CODES)

C18_Witness ==
    /\ config.countries.given
    /\ HasUnrecognized(config.countries.list)
    /\ \E k \in DOMAIN pageLog : pageLog[k].region = "FI" /\ pageLog[k].outcome # "pending"
    /\ run.pc = "exited"


\* C19: with an empty or absent region list a multi-job run requests page 1 of
\* every recognized region; it neither fails for the list nor fetches nothing.
RequestedFirstPage(region) ==
    \E k \in DOMAIN pageLog : pageLog[k].region = region /\ k[2] = 1

C19_EmptyListMeansAllRegions ==
    (config.JOB_URL = NoUrl /\ config.jobUrl = NoUrl
     /\ (~config.countries.given \/ config.countries.list = <<>>)
     /\ run.pc # "start") =>
        /\ run.pc # "failed"
        /\ \A region \in Range(COUNTRY_CODES) : RequestedFirstPage(region)


\* C20: extractJobFromHtml reports each failure with its own reason: a document
\* without the window.__NUXT__= script, a payload whose evaluation throws and a
\* payload without state.jobs.job give results the caller can tell apart.
FailureKinds == {"no-script", "eval-throws", "no-job-path"}

C20_FailuresDistinguishable ==
    unitTest.pc = "extracting" =>
        \A i, j \in DOMAIN unitTest.results :
            (unitTest.docs[i].kind \in FailureKinds
             /\ unitTest.docs[j].kind \in FailureKinds
             /\ unitTest.docs[i].kind # unitTest.docs[j].kind)
                => unitTest.results[i] # unitTest.results[j]


\* C21: extractJobFromHtml always terminates: every call the handler makes
\* comes back with a result, also for a payload built to run without end.
C21_ExtractionTerminates ==
    <>(Len(unitTest.results) = Len(unitTest.docs))


\* C22: translateJobPositionTypes gives a list as long as its input, in the
\* same order, with the label in place of every id that is a key of
\* JOB_POSITION_TYPE_MAP and every other id unchanged; the empty list gives
\* the empty list.
C22_TranslateKeepsShape ==
    (unitTest.pc = "translated") =>
        /\ Len(unitTest.result) = Len(unitTest.ids)
        /\ \A k \in DOMAIN unitTest.ids :
               LET id == unitTest.ids[k] IN
               /\ TextOf(id) \in DOMAIN JOB_POSITION_TYPE_MAP =>
                      unitTest.result[k] = Str(JOB_POSITION_TYPE_MAP[TextOf(id)])
               /\ TextOf(id) \notin DOMAIN JOB_POSITION_TYPE_MAP =>
                      unitTest.result[k] = id


\* The record the handler pushed in a step that ran it on a page with a job.
NonEmptyString(x) == x.t = "string" /\ TextOf(x) # ""

PushedOutput == dataset'[Len(dataset')]

\* C23: in the output record the handler builds, publishedAt is the extracted
\* publishedAt when that is not empty and the extracted createdAt when it is
\* empty or missing; createdAt is copied unchanged.
C23_PublishedAtFallback ==
    [][\A k \in DOMAIN requests :
         \A html \in WideDetailPages(PageIdOf(requests[k])) :
            (HandleJobDetail(k, html) /\ html.kind = "job" /\ html.job.company.t = "object") =>
                /\ Len(dataset') = Len(dataset) + 1
                /\ PushedOutput.createdAt = html.job.createdAt
                /\ NonEmptyString(html.job.publishedAt) =>
                       PushedOutput.publishedAt = html.job.publishedAt
                /\ ~NonEmptyString(html.job.publishedAt) =>
                       PushedOutput.publishedAt = html.job.createdAt]_vars

C23_Witness ==
    \E k \in DOMAIN dataset :
        /\ "publishedAt" \in DOMAIN dataset[k]
        /\ dataset[k].publishedAt = dataset[k].createdAt
        /\ dataset[k].createdAt = Stamp("2025-01-15", "10:00:00.000", "Z")


\* C24: in the output record the handler builds, link is absent when the
\* extracted link is the empty string or missing and is the extracted link
\* otherwise; no output record has link = "".
C24_EmptyLinkIsAbsent ==
    [][\A k \in DOMAIN requests :
         \A html \in WideDetailPages(PageIdOf(requests[k])) :
            (HandleJobDetail(k, html) /\ html.kind = "job" /\ html.job.company.t = "object") =>
                /\ Len(dataset') = Len(dataset) + 1
                /\ PushedOutput.link # Str("")
                /\ NonEmptyString(html.job.link) => PushedOutput.link = html.job.link
                /\ ~NonEmptyString(html.job.link) => PushedOutput.link = Undefined]_vars

C24_Witness ==
    /\ run.pc = "exited"
    /\ \E k \in DOMAIN dataset :
          /\ "link" \in DOMAIN dataset[k]
          /\ dataset[k].link = Undefined
          /\ dataset[k].title = Str("Engineer")


\* C25: validation fails for a record that is missing one of the objects
\* company, location or views, and an error names the missing field.
C25_MissingObjectFails ==
    unitTest.pc = "validated" =>
        \A f \in {"company", "location", "views"} :
            unitTest.data[f] = Undefined =>
                /\ ~unitTest.result.isValid
                /\ ErrorsAbout(unitTest.result.errors, f) # {}


\* A step that changes a set of seen job ids, and the listing fetches that are
\* in flight next to the callback that runs in the step.
SeenSetTouched ==
    \/ fetchAll.seenJobIds' # fetchAll.seenJobIds
    \/ stream.seenJobIds' # stream.seenJobIds

ArrivedNow ==
    IF arrivals' # arrivals
    THEN {[call |-> arrivals'[Len(arrivals')][1], page |-> arrivals'[Len(arrivals')][2]]}
    ELSE {}

OtherFetches == inflight \ ArrivedNow

\* C26 as stated: the set of seen job ids is touched only after all concurrent
\* listing fetches have completed, never by a callback that runs while other
\* fetches are in flight.
C26_SeenSetAfterAllFetches ==
    [][SeenSetTouched => OtherFetches = {}]_vars

\* C26 amended: the set is touched only in synchronous steps that run when the
\* fetches they depend on are complete: the batch merge after every listing
\* fetch, the streaming first-page step after every first page, and a region's
\* callback after all remaining pages of that region, while pages of other
\* regions may still be in flight.
C26_SeenSetAfterOwnFetches ==
    [][SeenSetTouched =>
          /\ fetchAll.seenJobIds' # fetchAll.seenJobIds => inflight = {}
          /\ stream.seenJobIds' # stream.seenJobIds =>
                /\ ArrivedNow # {}
                /\ stream.pc = "first" => OtherFetches = {}
                /\ \A x \in OtherFetches, y \in ArrivedNow : x.call # y.call]_vars

C26_Witness ==
    /\ stream.pc = "rest"
    /\ inflight # {}
    /\ \E i \in DOMAIN stream.rest : stream.rest[i].pc = "done"
    /\ Len(requests) > Len(run.startUrls)


\* C27: over the whole run the job-detail handler hands exactly one record to
\* the dataset for each dispatched job, the output record or one error
\* placeholder, never both and never two placeholders, also when the handler
\* throws and the crawler retries the request.
C27_OneRecordPerJob ==
    \A k \in DOMAIN requests :
        LET r == requests[k]
            ran == {a \in DOMAIN r.attempts : r.attempts[a].got # "nothing"}
        IN
        /\ Cardinality(RecordsFor(r)) <= 1
        /\ ran # {} => Cardinality(RecordsFor(r)) = 1


\* C28: in the streaming multi-job mode every request added with
\* crawler.addRequests after the crawler started is processed by the handler
\* before the run ends: the crawler run never completes on an empty queue while
\* listing pages are in flight.
C28_AddedRequestsProcessed ==
    /\ (stream.pc = "rest" /\ inflight # {}) => run.crawler # "finished"
    /\ (stream.pc # "none" /\ run.pc = "exited") =>
           \A k \in DOMAIN requests : Settled(requests[k])


\* C29: in the streaming multi-job mode, under every interleaving of the page
\* callbacks, each job id is enqueued at most once over the initial requests
\* and all addRequests batches, and the size of seenJobIds is the number of
\* enqueued requests.
C29_EnqueuedOnce ==
    stream.pc # "none" =>
        /\ \A a, b \in DOMAIN requests : a # b => requests[a].jobId # requests[b].jobId
        /\ Cardinality(stream.seenJobIds) = Len(requests)
        /\ {requests[a].jobId : a \in DOMAIN requests} = stream.seenJobIds

C29_Witness ==
    /\ stream.pc = "joined"
    /\ \A i \in DOMAIN stream.rest : stream.rest[i].pc = "done"
    /\ Len(stream.rest) = 2
    /\ Len(requests) = MaxId
    /\ Len(arrivals) > Len(requests)
    /\ \E n \in DOMAIN arrivals : n > 2 /\ n < Len(arrivals)
                                   /\ arrivals[n][1] # arrivals[n + 1][1]


\* The first page of a region at which the listings supplied so far reach the
\* limit, or the last page when they never do.
CutPage(region, limit) ==
    LET N == upstream[region].pages
        reached == {p \in 1..N : CountBefore(region, p + 1) >= limit}
    IN IF reached = {} THEN N ELSE CHOOSE p \in reached : \A q \in reached : p <= q

\* C30: fetchAllJobsForRegion with limit L > 0 never cuts inside a page: its
\* result is page 1's docs and featured docs and then the docs of the pages
\* 2..k, whole, where k is the first page at which the count reaches L, or the
\* last page; it can be longer than L and is a prefix of the result for limit 0.
C30_WholePagesUpToLimit ==
    \A i \in DOMAIN calls :
        LET c == calls[i] IN
        (c.limit > 0 /\ c.pc = "done") =>
            c.allJobs = SubSeq(WholeRegion(c.region), 1,
                               CountBefore(c.region, CutPage(c.region, c.limit) + 1))

C30_Witness ==
    \E i \in DOMAIN calls :
        LET c == calls[i] IN
        /\ c.limit > 0 /\ c.pc = "done"
        /\ CutPage(c.region, c.limit) = 2
        /\ Len(c.allJobs) > c.limit
        /\ Len(c.allJobs) < Len(WholeRegion(c.region))

====
